---- MODULE Spec2Model ----
(***************************************************************************)
(* A model of grailbio/gql's python driver (src/python/gql.py): one call   *)
(* of GQL.run, GQL.eval or a direct _Instance(...).run() on a session,     *)
(* the retry loop of _Instance.run, and the two pprof sampler threads that *)
(* bracket it.                                                             *)
(*                                                                         *)
(* Strings of the program are TLA+ strings; a params key, which the code   *)
(* unpacks character by character, is a sequence of one-character strings. *)
(* Time is counted in units of Interval \div Slices seconds.               *)
(***************************************************************************)
EXTENDS Integers, Sequences, FiniteSets, TLC

\* ---- bounds of the model ----
MaxRetries == 2
MaxStatus == 2
Slices == 2
NJobs == 2
MaxSnaps == 1
MaxRows == 1
MaxLines == 3
MaxPathLen == 2

\* ---- program constants ----
\* bm_port = 2000 + hash(log_path) % 20000, main_port = 22000 + hash(log_path) % 20000
BmBase == 2000
MainBase == 22000
PortRange == 20000
\* the integer that stands for a missing value
Sentinel == -9999999
\* done_cv.wait(30) and time.sleep(30)
Interval == 30
\* GQL.__init__(..., default_max_retries=1)
DefaultMaxRetries == 1

Unit == Interval \div Slices
SinceCap == 2 * Interval + Unit

Samplers == {"bm", "main"}
Apis == {"run", "eval", "instance"}
Exprs == {"", "e"}
Scripts == {"", "s"}
Labels == {"", "l"}
Statuses == 0..MaxStatus
Retries == -1..MaxRetries
DefaultRetries == -1..DefaultMaxRetries

\* The params mappings a caller passes: none, one whose key has two
\* characters, one whose key has three.
ParamChoices ==
    { << >>,
      << [key |-> <<"k", "v">>, val |-> "x"] >>,
      << [key |-> <<"i", "n", "p">>, val |-> "x"] >> }

default_params == << >>

VARIABLES
    timed,                \* whether the clock of this behaviour is modelled
    default_max_retries,  \* GQL.__default_max_retries
    call,                 \* the caller's arguments
    args,                 \* the arguments in the callee's locals
    pc,                   \* position of the calling thread
    err,                  \* the exception that ended the call, if any
    label, script_path, gql_params, max_retries, status, done,  \* _Instance fields
    retries,              \* local of _Instance.run
    cmd_params,           \* the rendered params of cmdline
    invocations,          \* number of subprocess.call(cmdline) made
    last_exit,            \* exit status of the latest engine process
    first_zero,           \* index of the first attempt that exited 0, 0 if none
    returned,             \* value returned by _Instance.run, -1 before
    n_start,              \* sampler threads started so far
    n_stop,               \* times done was set
    thr,                  \* position of each sampler thread
    failed,               \* whether a fetch of the sampler exited nonzero
    timer,                \* time left of the sampler's wait or sleep
    since_done,           \* time since done was set (capped)
    hash_of,              \* hash(): this process's hash of each log path
    gql_seq,              \* GQL.__seq, the next value of the itertools counter
    order,                \* the concurrent calls, in the order they took a counter value
    job,                  \* the concurrent calls on one session
    df,                   \* the table given to dataframe_to_tidytsv
    dict_file,            \* the data dictionary file of the tidy path
    data_file,            \* the tidy tsv file
    rd_cols,              \* cols of _TidyTSVParser.read: (name, dtype) per column
    rd_rows,              \* rows of _TidyTSVParser.read, after __hack_na
    df2,                  \* the table tidytsv_to_dataframe returns
    tpc,                  \* position of the thread using the codec
    terr,                 \* the exception that ended the codec call, if any
    s_in,                 \* the lines given to _comment_stripper
    s_pos,                \* index of the line its loop takes next
    s_n,                  \* its counter n
    s_out,                \* the lines it has yielded
    fs,                   \* contents of the local files and the remote objects
    w_path,               \* path of the file create_file has open, "" if none
    fres,                 \* what the latest file operation did and returned
    created,              \* remote paths written through create_file and closed
    fetched,              \* remote paths transferred to the cache so far
    m_pc,                 \* position of main in run.py's quintile loop
    quintile,             \* main's variable quintile
    q_params,             \* the 'quintile' entry of the dict main's variable params names
    task,                 \* the callbacks submitted to the pool
    r_path,               \* two remote paths given to maybe_cache_file / create_file
    r_cache,              \* local_path of maybe_cache_file for each of them, once computed
    r_stage               \* __local_path of the _S3FileWriter for the first, once computed

jobVars == << hash_of, gql_seq, order, job >>
tidyVars == << df, dict_file, data_file, rd_cols, rd_rows, df2, tpc, terr >>
stripVars == << s_in, s_pos, s_n, s_out >>
fileVars == << fs, w_path, fres, created, fetched >>
poolVars == << m_pc, quintile, q_params, task >>
pathVars == << r_path, r_cache, r_stage >>
extVars == << jobVars, tidyVars, stripVars, fileVars, poolVars, pathVars >>

vars == << timed, default_max_retries, call, args, pc, err,
           label, script_path, gql_params, max_retries, status, done,
           retries, cmd_params, invocations, last_exit, first_zero, returned,
           n_start, n_stop, thr, failed, timer, since_done, extVars >>

baseVars == << timed, default_max_retries, call, args, pc, err,
               label, script_path, gql_params, max_retries, status, done,
               retries, cmd_params, invocations, last_exit, first_zero, returned,
               n_start, n_stop, thr, failed, timer, since_done >>

\* What the actions of one part of the program leave alone.
notJobVars == << baseVars, tidyVars, stripVars, fileVars, poolVars, pathVars >>
notTidyVars == << baseVars, jobVars, stripVars, fileVars, poolVars, pathVars >>
notStripVars == << baseVars, jobVars, tidyVars, fileVars, poolVars, pathVars >>
notFileVars == << baseVars, jobVars, tidyVars, stripVars, poolVars, pathVars >>
notPoolVars == << baseVars, jobVars, tidyVars, stripVars, fileVars, pathVars >>
notPathVars == << baseVars, jobVars, tidyVars, stripVars, fileVars, poolVars >>

instVars == << label, script_path, gql_params, max_retries, status, done >>
runVars == << retries, cmd_params, invocations, last_exit, first_zero, returned,
             n_start, n_stop >>
thrVars == << thr, failed, timer >>

NoCall == [api |-> "instance", expr |-> "", script_path |-> "", label |-> "",
           max_retries |-> 0, gql_params |-> << >>]
NoArgs == [expr |-> "", script_path |-> "", label |-> "",
           max_retries |-> 0, gql_params |-> << >>]

\* ---- concurrent calls on one session: state ----

Jobs == 1..NJobs

\* The labels jobs run under (after defaulting).
JobLabels == {"anon_expr", "anon_run", "l"}

\* A path under the session's log directory: the label it starts with, what
\* is appended to it (nothing, or the sampler's name and the kind of
\* snapshot) and the snapshot's number (0 where there is none).
Path(l, s, file, n) == [label |-> l, sampler |-> s, file |-> file, n |-> n]

\* log_path = self.log_prefix + "log.txt"
LogPath(l) == Path(l, "", "log.txt", 0)

\* log_path = self.log_prefix + 'pprof_log.txt'
PprofLogPath(l) == Path(l, "", "pprof_log.txt", 0)

\* f'{prefix}_cpu.{seq}.pprof' and f'{prefix}_heap.{seq}.pprof', prefix = log_prefix + 'bm' or 'main'
SnapshotPath(l, s, kind, n) == Path(l, s, kind, n)

LogPaths == {LogPath(l) : l \in JobLabels}

\* hash() of this process (it varies with the hash seed): all paths hash
\* alike; the hashes differ but two are congruent modulo PortRange; the
\* hashes differ modulo PortRange.
HashFns ==
    { [p \in LogPaths |-> 7],
      [p \in LogPaths |-> IF p.label = "anon_expr" THEN 7
                          ELSE IF p.label = "anon_run" THEN 8 ELSE PortRange + 7],
      [p \in LogPaths |-> IF p.label = "anon_expr" THEN 7
                          ELSE IF p.label = "anon_run" THEN 8 ELSE 9] }

NoJob == [pc |-> "idle", kind |-> "run", label |-> "", seq |-> -1,
          temp_path |-> << >>, bm_port |-> 0, main_port |-> 0,
          log_open |-> FALSE, done |-> FALSE,
          smp |-> [s \in Samplers |-> "unstarted"],
          snap |-> [s \in Samplers |-> 0]]

InitJobs ==
    /\ gql_seq = 0
    /\ order = << >>
    /\ job = [j \in Jobs |-> NoJob]

\* A single call on the session: no other call runs beside it.
InitOneCall ==
    /\ hash_of = [p \in LogPaths |-> 7]
    /\ InitJobs

\* ---- the tidy tsv codec: state ----

NoTable == [cols |-> << >>, rows |-> << >>]
NoFile == [exists |-> FALSE, lines |-> << >>]

InitTidy ==
    /\ dict_file = NoFile
    /\ data_file = NoFile
    /\ rd_cols = << >>
    /\ rd_rows = << >>
    /\ df2 = NoTable
    /\ terr = "none"

\* ---- files: state ----

LocalFile == "/d/f"
Remotes == {"s3://b/k"}

\* path.startswith('s3://')
IsRemote(p) == p \in Remotes

\* path.replace('/', '_')
Replaced(p) == CASE p = "s3://b/k" -> "s3:__b_k"

\* os.path.join(CACHE_DIR, path.replace('/', '_'))
CachePath(p) == CASE Replaced(p) = "s3:__b_k" -> "CACHE_DIR/s3:__b_k"

\* os.path.join(CACHE_DIR, path.replace('/', '_') + 'tmp')
TmpPath(p) == CASE Replaced(p) = "s3:__b_k" -> "CACHE_DIR/s3:__b_ktmp"

\* The paths a caller names, and all paths.
UserPaths == {LocalFile} \cup Remotes
Paths == UserPaths \cup {CachePath(p) : p \in Remotes} \cup {TmpPath(p) : p \in Remotes}

Absent == "<absent>"
Contents == {"", "x", "y"}

NoRes == [op |-> "none", path |-> "", to |-> "", src |-> Absent, value |-> FALSE,
          raised |-> FALSE, transfer |-> FALSE, cached |-> FALSE,
          exc |-> FALSE, old |-> Absent, uploads |-> 0]

\* for quintile in range(0, 5)
NQuintiles == 5
Tasks == 1..NQuintiles

NoTask == [state |-> "none", label |-> -1, param |-> -1]

\* a local file name that is not computed yet
NoName == << >>

\* No cache or staging file name is computed.
InitNoPaths ==
    /\ r_path = << NoName, NoName >>
    /\ r_cache = << NoName, NoName >>
    /\ r_stage = NoName

\* run.py is at the top of its quintile loop.
InitPool ==
    /\ m_pc = "for"
    /\ quintile = -1
    /\ q_params = -1
    /\ task = [k \in Tasks |-> NoTask]

\* No file operation is made.
InitNoFiles ==
    /\ fs = [p \in Paths |-> Absent]
    /\ w_path = ""
    /\ fres = NoRes
    /\ created = {}
    /\ fetched = {}
    /\ InitPool
    /\ InitNoPaths

\* _comment_stripper has nothing to read.
InitNoLines ==
    /\ s_in = << >>
    /\ s_pos = 1
    /\ s_n = 0
    /\ s_out = << >>

\* The codec is not used.
InitNoTable ==
    /\ df = NoTable
    /\ tpc = "idle"
    /\ InitTidy
    /\ InitNoLines
    /\ InitNoFiles

InitCommon ==
    /\ call = NoCall
    /\ args = NoArgs
    /\ pc = "idle"
    /\ err = "none"
    /\ label = ""
    /\ script_path = ""
    /\ gql_params = << >>
    /\ max_retries = 0
    /\ status = 0
    /\ done = FALSE
    /\ retries = 0
    /\ cmd_params = << >>
    /\ invocations = 0
    /\ last_exit = 0
    /\ first_zero = 0
    /\ returned = -1
    /\ n_start = 0
    /\ n_stop = 0
    /\ thr = [s \in Samplers |-> "unstarted"]
    /\ failed = [s \in Samplers |-> FALSE]
    /\ timer = [s \in Samplers |-> 0]
    /\ since_done = 0

Init ==
    /\ timed = FALSE
    /\ default_max_retries \in DefaultRetries
    /\ InitCommon
    /\ InitOneCall
    /\ InitNoTable

\* The clock runs; the session is the default one.
InitT ==
    /\ timed = TRUE
    /\ default_max_retries = DefaultMaxRetries
    /\ InitCommon
    /\ InitOneCall
    /\ InitNoTable

Raise(e) ==
    /\ pc' = "raised"
    /\ err' = e

\* ---- the caller ----

\* The session's default_max_retries is read only by GQL.run and GQL.eval,
\* and only for a negative max_retries: the other calls are made on the
\* default session.
ReadsDefault(api, mr) == api # "instance" /\ mr < 0

\* With the clock running, one well-formed job per entry point is explored.
ClockCall(e, s, l, mr, p) ==
    e = "" /\ s = "s" /\ l = "l" /\ mr = 0 /\ p = << >>

Call(api, e, s, l, mr, p) ==
    /\ pc = "idle"
    /\ ~ReadsDefault(api, mr) => default_max_retries = DefaultMaxRetries
    /\ timed => ClockCall(e, s, l, mr, p)
    /\ call' = [api |-> api, expr |-> e, script_path |-> s, label |-> l,
                max_retries |-> mr, gql_params |-> p]
    /\ args' = [expr |-> e, script_path |-> s, label |-> l,
                max_retries |-> mr, gql_params |-> p]
    /\ pc' = IF api = "instance" THEN "construct" ELSE "entry"
    /\ UNCHANGED << timed, default_max_retries, err, instVars, runVars, thrVars, since_done, extVars >>

\* ---- GQL.eval / GQL.run, up to the construction of the _Instance ----

NeitherOnly(expr, path) == expr = "" /\ path = ""

NotExactlyOne(expr, path) == (expr = "") = (path = "")

DefaultLabel(api, l) ==
    IF l = "" THEN (IF api = "eval" THEN "anon_expr" ELSE "anon_run") ELSE l

ResolveRetriesNoRetry(mr, dflt) == IF mr < 0 THEN 0 ELSE mr

ResolveRetries(mr, dflt) == IF mr < 0 THEN dflt ELSE mr

ResolveParams(p, dflt) == IF p = << >> THEN dflt ELSE p

GQLEntry ==
    /\ pc = "entry"
    /\ IF NotExactlyOne(args.expr, args.script_path)
         THEN /\ Raise("config")
              /\ UNCHANGED args
         ELSE /\ args' = [args EXCEPT
                            !.label = DefaultLabel(call.api, @),
                            !.max_retries = ResolveRetries(@, default_max_retries),
                            !.gql_params = ResolveParams(@, default_params)]
              /\ pc' = "construct"
              /\ UNCHANGED err
    /\ UNCHANGED << timed, default_max_retries, call, instVars, runVars, thrVars, since_done, extVars >>

\* ---- _Instance.__init__ ----

NeitherSet(path, expr) == path = "" /\ expr = ""

EmptyLabelAccepted(l) == FALSE

EmptyLabel(l) == l = ""

FirstStep == "start_bm"

InstanceInit ==
    /\ pc = "construct"
    /\ IF NeitherSet(args.script_path, args.expr)
         THEN /\ Raise("config")
              /\ UNCHANGED instVars
         ELSE IF EmptyLabel(args.label)
         THEN /\ Raise("label")
              /\ UNCHANGED instVars
         ELSE /\ label' = args.label
              /\ script_path' = IF args.expr # "" THEN "tmp.gql" ELSE args.script_path
              /\ gql_params' = args.gql_params
              /\ max_retries' = args.max_retries
              /\ done' = FALSE
              /\ status' = 0
              /\ pc' = FirstStep
              /\ UNCHANGED err
    /\ UNCHANGED << timed, default_max_retries, call, args, runVars, thrVars, since_done, extVars >>

\* ---- _Instance.__start_pprof ----

T(d) == IF timed THEN d ELSE 0

StartThread(s, next) ==
    /\ thr' = [thr EXCEPT ![s] = "started"]
    /\ n_start' = n_start + 1
    /\ pc' = next
    /\ UNCHANGED << timed, default_max_retries, call, args, err, instVars,
                    retries, cmd_params, invocations, last_exit, first_zero, returned, n_stop,
                    failed, timer, since_done, extVars >>

StartBm ==
    /\ pc = "start_bm"
    /\ StartThread("bm", "start_main")

StartMain ==
    /\ pc = "start_main"
    /\ StartThread("main", "open_log")

\* ---- _Instance.run ----

OpenLog(ok) ==
    /\ pc = "open_log"
    /\ IF ok THEN pc' = "render" /\ UNCHANGED err ELSE Raise("io")
    /\ UNCHANGED << timed, default_max_retries, call, args, instVars, runVars,
                    thrVars, since_done, extVars >>

\* for k, v in self.gql_params: iterating a dict yields its keys, and each
\* key is unpacked into exactly two items.
Renderable(params) == \A i \in 1..Len(params) : Len(params[i].key) = 2

Rendered(params) ==
    [i \in 1..Len(params) |-> [name |-> << params[i].key[1] >>, value |-> params[i].key[2]]]

RenderParams ==
    /\ pc = "render"
    /\ IF Renderable(gql_params)
         THEN /\ cmd_params' = Rendered(gql_params)
              /\ retries' = 0
              /\ pc' = "loop"
              /\ UNCHANGED err
         ELSE /\ Raise("params")
              /\ UNCHANGED << cmd_params, retries >>
    /\ UNCHANGED << timed, default_max_retries, call, args, instVars,
                    invocations, last_exit, first_zero, returned, n_start, n_stop,
                    thrVars, since_done, extVars >>

LoopCondStrict(r, m) == r < m

LoopCond(r, m) == r <= m

SucceededInverted(st) == st # 0

Succeeded(st) == st = 0

RestartPprofPc == "start_bm"

NextAttemptPc == "loop"

Invoke(st) ==
    /\ pc = "loop"
    /\ LoopCond(retries, max_retries)
    /\ invocations' = invocations + 1
    /\ last_exit' = st
    /\ status' = st
    /\ first_zero' = IF st = 0 /\ first_zero = 0 THEN invocations + 1 ELSE first_zero
    /\ IF Succeeded(st)
         THEN pc' = "join_set" /\ UNCHANGED retries
         ELSE pc' = NextAttemptPc /\ retries' = retries + 1
    /\ UNCHANGED << timed, default_max_retries, call, args, err,
                    label, script_path, gql_params, max_retries, done,
                    cmd_params, returned, n_start, n_stop, thrVars, since_done, extVars >>

\* subprocess.call raises when the engine cannot be executed
ExecFails ==
    /\ pc = "loop"
    /\ LoopCond(retries, max_retries)
    /\ Raise("exec")
    /\ UNCHANGED << timed, default_max_retries, call, args, instVars, runVars,
                    thrVars, since_done, extVars >>

LoopExit ==
    /\ pc = "loop"
    /\ ~LoopCond(retries, max_retries)
    /\ pc' = "join_set"
    /\ UNCHANGED << timed, default_max_retries, call, args, err, instVars, runVars,
                    thrVars, since_done, extVars >>

\* ---- _Instance.__join_pprof ----

JoinSetDone ==
    /\ pc = "join_set"
    /\ done' = TRUE
    /\ n_stop' = n_stop + 1
    /\ thr' = [s \in Samplers |-> IF thr[s] = "wait" THEN "woken" ELSE thr[s]]
    /\ pc' = "join_bm"
    /\ UNCHANGED << timed, default_max_retries, call, args, err,
                    label, script_path, gql_params, max_retries, status,
                    retries, cmd_params, invocations, last_exit, first_zero, returned, n_start,
                    failed, timer, since_done, extVars >>

JoinedNoWait(s) == TRUE

Joined(s) == thr[s] = "exit"

JoinBm ==
    /\ pc = "join_bm"
    /\ Joined("bm")
    /\ pc' = "join_main"
    /\ UNCHANGED << timed, default_max_retries, call, args, err, instVars, runVars,
                    thrVars, since_done, extVars >>

JoinMain ==
    /\ pc = "join_main"
    /\ Joined("main")
    /\ pc' = "returned"
    /\ returned' = status
    /\ UNCHANGED << timed, default_max_retries, call, args, err, instVars,
                    retries, cmd_params, invocations, last_exit, first_zero, n_start, n_stop,
                    thrVars, since_done, extVars >>

\* ---- back in GQL.run / GQL.eval ----

GQLRunReturn ==
    /\ pc = "returned"
    /\ call.api = "run"
    /\ pc' = "done"
    /\ UNCHANGED << timed, default_max_retries, call, args, err, instVars, runVars,
                    thrVars, since_done, extVars >>

EvalFailsNever(st) == FALSE

EvalFails(st) == st # 0

EvalFinish ==
    /\ pc = "returned"
    /\ call.api = "eval"
    /\ IF EvalFails(returned) THEN Raise("status") ELSE pc' = "decode" /\ UNCHANGED err
    /\ UNCHANGED << timed, default_max_retries, call, args, instVars, runVars,
                    thrVars, since_done, extVars >>

\* return self.tidytsv_to_dataframe(temp_path): the output file is read
EvalDecode ==
    /\ pc = "decode"
    /\ pc' = "done"
    /\ UNCHANGED << timed, default_max_retries, call, args, err, instVars, runVars,
                    thrVars, since_done, extVars >>

\* ---- _Instance.__pprof and __wait_pprof_timeout ----

PprofBegin(s) ==
    /\ thr[s] = "started"
    /\ thr' = [thr EXCEPT ![s] = "wait"]
    /\ timer' = [timer EXCEPT ![s] = T(Interval)]
    /\ UNCHANGED << timed, default_max_retries, call, args, pc, err, instVars, runVars,
                    failed, since_done, extVars >>

WaitResultAlways(d) == TRUE

WaitResult(d) == ~d

WaitReturn(s) ==
    /\ thr' = [thr EXCEPT ![s] = IF WaitResult(done) THEN "cpu" ELSE "exit"]
    /\ UNCHANGED << timed, default_max_retries, call, args, pc, err, instVars, runVars,
                    failed, timer, since_done, extVars >>

WaitTimeout(s) ==
    /\ thr[s] = "wait"
    /\ timed => timer[s] = 0
    /\ WaitReturn(s)

WaitNotified(s) ==
    /\ thr[s] = "woken"
    /\ WaitReturn(s)

AfterFetchChecked(cur, ok) ==
    IF ~ok THEN "exit" ELSE IF cur = "cpu" THEN "heap" ELSE "sleep"

AfterFetch(cur, ok) == IF cur = "cpu" THEN "heap" ELSE "sleep"

Fetch(s, cur, ok) ==
    /\ thr[s] = cur
    /\ thr' = [thr EXCEPT ![s] = AfterFetch(cur, ok)]
    /\ failed' = [failed EXCEPT ![s] = @ \/ ~ok]
    /\ timer' = [timer EXCEPT ![s] = IF thr'[s] = "sleep" THEN T(Interval) ELSE @]
    /\ UNCHANGED << timed, default_max_retries, call, args, pc, err, instVars, runVars,
                    since_done, extVars >>

FetchCpu(s, ok) == Fetch(s, "cpu", ok)

FetchHeap(s, ok) == Fetch(s, "heap", ok)

SleepEnd(s) ==
    /\ thr[s] = "sleep"
    /\ timed => timer[s] = 0
    /\ thr' = [thr EXCEPT ![s] = "wait"]
    /\ timer' = [timer EXCEPT ![s] = T(Interval)]
    /\ UNCHANGED << timed, default_max_retries, call, args, pc, err, instVars, runVars,
                    failed, since_done, extVars >>

\* ---- the clock ----

Blocked(s) == thr[s] \in {"wait", "sleep"} /\ timer[s] > 0

Tick ==
    /\ timed
    /\ \E s \in Samplers : Blocked(s)
    /\ \A s \in Samplers : thr[s] \in {"unstarted", "exit"} \/ Blocked(s)
    /\ timer' = [s \in Samplers |->
                   IF Blocked(s) THEN (IF timer[s] > Unit THEN timer[s] - Unit ELSE 0)
                   ELSE timer[s]]
    /\ since_done' = IF done
                       THEN (IF since_done + Unit < SinceCap THEN since_done + Unit ELSE SinceCap)
                       ELSE 0
    /\ UNCHANGED << timed, default_max_retries, call, args, pc, err, instVars, runVars,
                    thr, failed, extVars >>

\* ---- specifications ----

Next ==
    \/ \E api \in Apis, e \in Exprs, s \in Scripts, l \in Labels,
          mr \in Retries, p \in ParamChoices : Call(api, e, s, l, mr, p)
    \/ GQLEntry
    \/ InstanceInit
    \/ StartBm
    \/ StartMain
    \/ \E ok \in BOOLEAN : OpenLog(ok)
    \/ RenderParams
    \/ \E st \in Statuses : Invoke(st)
    \/ ExecFails
    \/ LoopExit
    \/ JoinSetDone
    \/ JoinBm
    \/ JoinMain
    \/ GQLRunReturn
    \/ EvalFinish
    \/ EvalDecode
    \/ \E s \in Samplers : PprofBegin(s)
    \/ \E s \in Samplers : WaitTimeout(s)
    \/ \E s \in Samplers : WaitNotified(s)
    \/ \E s \in Samplers, ok \in BOOLEAN : FetchCpu(s, ok)
    \/ \E s \in Samplers, ok \in BOOLEAN : FetchHeap(s, ok)
    \/ \E s \in Samplers : SleepEnd(s)

Spec == Init /\ [][Next]_vars

NextT == Next \/ Tick

SpecT == InitT /\ [][NextT]_vars

\* ---- fair scheduling ----

\* The steps of the thread that executes _Instance.run (and of GQL.run or
\* GQL.eval around it): each statement, once reached, is eventually executed,
\* and subprocess.call eventually comes back with a status or an exception.
MainStep ==
    \/ GQLEntry
    \/ InstanceInit
    \/ StartBm
    \/ StartMain
    \/ \E ok \in BOOLEAN : OpenLog(ok)
    \/ RenderParams
    \/ \E st \in Statuses : Invoke(st)
    \/ ExecFails
    \/ LoopExit
    \/ JoinSetDone
    \/ JoinBm
    \/ JoinMain
    \/ GQLRunReturn
    \/ EvalFinish
    \/ EvalDecode

\* The steps of one sampler thread: the timed wait and the sleep run out,
\* and each snapshot fetch comes back.
SamplerStep(s) ==
    \/ PprofBegin(s)
    \/ WaitTimeout(s)
    \/ WaitNotified(s)
    \/ \E ok \in BOOLEAN : FetchCpu(s, ok)
    \/ \E ok \in BOOLEAN : FetchHeap(s, ok)
    \/ SleepEnd(s)

Fairness ==
    /\ WF_vars(MainStep)
    /\ \A s \in Samplers : WF_vars(SamplerStep(s))

SpecFair == Init /\ [][Next]_vars /\ Fairness

\* ---- concurrent calls on one session: GQL.eval, GQL.run, _Instance.run, __pprof ----

InitConcurrent ==
    /\ timed = FALSE
    /\ default_max_retries = DefaultMaxRetries
    /\ InitCommon
    /\ hash_of \in HashFns
    /\ InitJobs
    /\ InitNoTable

\* GQL.eval / GQL.run entered by one more thread (the threads are numbered
\* in the order of their calls): the label defaults.
JobCall(j, kind, l) ==
    /\ job[j].pc = "idle"
    /\ \A i \in Jobs : i < j => job[i].pc # "idle"
    /\ job' = [job EXCEPT ![j].kind = kind,
                          ![j].label = DefaultLabel(kind, l),
                          ![j].pc = IF kind = "eval" THEN "seq" ELSE "init"]
    /\ UNCHANGED << notJobVars, hash_of, gql_seq, order >>

AdvanceLost(n) == n

\* itertools.count: the value after n
Advance(n) == n + 1

\* seq = next(self.__seq); temp_path = f'{log_dir}-{label}-expr_to_dataframe_tmp-{seq}.tsv'
TempPath(l, seq) == << l, "expr_to_dataframe_tmp", seq >>

JobTakeSeq(j) ==
    /\ job[j].pc = "seq"
    /\ job' = [job EXCEPT ![j].seq = gql_seq,
                          ![j].temp_path = TempPath(job[j].label, gql_seq),
                          ![j].pc = "init"]
    /\ gql_seq' = Advance(gql_seq)
    /\ order' = Append(order, j)
    /\ UNCHANGED << notJobVars, hash_of >>

BmPort(p) == BmBase + (hash_of[p] % PortRange)
MainPort(p) == MainBase + (hash_of[p] % PortRange)

\* _Instance.__init__ and the first lines of _Instance.run
JobPorts(j) ==
    /\ job[j].pc = "init"
    /\ job' = [job EXCEPT ![j].bm_port = BmPort(LogPath(job[j].label)),
                          ![j].main_port = MainPort(LogPath(job[j].label)),
                          ![j].pc = "start_bm"]
    /\ UNCHANGED << notJobVars, hash_of, gql_seq, order >>

\* __start_pprof: a started sampler opens the pprof log and waits
JobStartSampler(j, s) ==
    /\ job[j].pc = (IF s = "bm" THEN "start_bm" ELSE "start_main")
    /\ job' = [job EXCEPT ![j].smp[s] = "wait",
                          ![j].pc = IF s = "bm" THEN "start_main" ELSE "open_log"]
    /\ UNCHANGED << notJobVars, hash_of, gql_seq, order >>

\* log_out = open(log_path, 'wb')
JobOpenLog(j) ==
    /\ job[j].pc = "open_log"
    /\ job' = [job EXCEPT ![j].log_open = TRUE, ![j].pc = "running"]
    /\ UNCHANGED << notJobVars, hash_of, gql_seq, order >>

\* the retry loop ends; __join_pprof sets done
JobSetDone(j) ==
    /\ job[j].pc = "running"
    /\ job' = [job EXCEPT ![j].done = TRUE, ![j].pc = "join"]
    /\ UNCHANGED << notJobVars, hash_of, gql_seq, order >>

\* both joins return and run returns: log_out goes out of scope
JobReturn(j) ==
    /\ job[j].pc = "join"
    /\ \A s \in Samplers : job[j].smp[s] = "exit"
    /\ job' = [job EXCEPT ![j].log_open = FALSE, ![j].pc = "finished"]
    /\ UNCHANGED << notJobVars, hash_of, gql_seq, order >>

\* __wait_pprof_timeout returns: the loop of __pprof ends or a cycle begins
SamplerWake(j, s) ==
    /\ job[j].smp[s] = "wait"
    /\ job[j].done \/ job[j].snap[s] < MaxSnaps
    /\ job' = [job EXCEPT ![j].smp[s] = IF job[j].done THEN "exit" ELSE "cpu"]
    /\ UNCHANGED << notJobVars, hash_of, gql_seq, order >>

\* the cpu snapshot is closed and the heap snapshot opened
SamplerCpuDone(j, s) ==
    /\ job[j].smp[s] = "cpu"
    /\ job' = [job EXCEPT ![j].smp[s] = "heap"]
    /\ UNCHANGED << notJobVars, hash_of, gql_seq, order >>

\* the heap snapshot is closed; sleep; seq += 1
SamplerHeapDone(j, s) ==
    /\ job[j].smp[s] = "heap"
    /\ job' = [job EXCEPT ![j].smp[s] = "wait", ![j].snap[s] = job[j].snap[s] + 1]
    /\ UNCHANGED << notJobVars, hash_of, gql_seq, order >>

\* The paths a job holds open for writing.
SamplerOpen(j, s) ==
    (IF job[j].smp[s] \in {"wait", "cpu", "heap"} THEN {PprofLogPath(job[j].label)} ELSE {})
    \cup (IF job[j].smp[s] = "cpu"
          THEN {SnapshotPath(job[j].label, s, "cpu", job[j].snap[s])} ELSE {})
    \cup (IF job[j].smp[s] = "heap"
          THEN {SnapshotPath(job[j].label, s, "heap", job[j].snap[s])} ELSE {})

OpenForWrite(j) ==
    (IF job[j].log_open THEN {LogPath(job[j].label)} ELSE {})
    \cup UNION {SamplerOpen(j, s) : s \in Samplers}

\* The ports a job has in use: the engine listens on them while the retry
\* loop runs, the samplers fetch from them until they are joined.
PortsInUse(j) ==
    IF job[j].pc \in {"running", "join"}
    THEN {job[j].bm_port, job[j].main_port} ELSE {}

NextConcurrent ==
    \/ \E j \in Jobs, kind \in {"run", "eval"}, l \in Labels : JobCall(j, kind, l)
    \/ \E j \in Jobs : JobTakeSeq(j)
    \/ \E j \in Jobs : JobPorts(j)
    \/ \E j \in Jobs, s \in Samplers : JobStartSampler(j, s)
    \/ \E j \in Jobs : JobOpenLog(j)
    \/ \E j \in Jobs : JobSetDone(j)
    \/ \E j \in Jobs : JobReturn(j)
    \/ \E j \in Jobs, s \in Samplers : SamplerWake(j, s)
    \/ \E j \in Jobs, s \in Samplers : SamplerCpuDone(j, s)
    \/ \E j \in Jobs, s \in Samplers : SamplerHeapDone(j, s)

SpecConcurrent == InitConcurrent /\ [][NextConcurrent]_vars

\* ---- the tidy tsv codec: _TidyTSVWriter, _TidyTSVParser, _comment_stripper ----

\* Column dtypes: np.int, np.float, object.
Types == {"int", "float", "object"}

\* A cell of a table: an int, a float (those with an integral value), NaN, a
\* str or None.
I(n) == [kind |-> "int", num |-> n, txt |-> ""]
F(n) == [kind |-> "float", num |-> n, txt |-> ""]
NaN == [kind |-> "nan", num |-> 0, txt |-> ""]
S(x) == [kind |-> "str", num |-> 0, txt |-> x]
None == [kind |-> "none", num |-> 0, txt |-> ""]
\* what a cast that raises leaves
Bad == [kind |-> "error", num |-> 0, txt |-> ""]

\* The values a column of each dtype holds.
ColumnValues(ty) ==
    IF ty = "int" THEN {I(1), I(Sentinel)}
    ELSE IF ty = "float" THEN {F(2), NaN, F(Sentinel)}
    ELSE {S("a"), S("NA"), S("#c"), None}

ColNames == << "A", "B", "D" >>

\* The schemas: int, float and string columns in any order, each at most once.
Schemas ==
    {s \in UNION {[1..n -> Types] : n \in 1..Cardinality(Types)} :
        \A i, k \in DOMAIN s : i # k => s[i] # s[k]}

Columns(s) == [i \in DOMAIN s |-> [name |-> ColNames[i], type |-> s[i]]]

RowsOf(s) == {r \in [DOMAIN s -> UNION {ColumnValues(ty) : ty \in Types}] :
                 \A i \in DOMAIN s : r[i] \in ColumnValues(s[i])}

Tables ==
    UNION {{[cols |-> Columns(s), rows |-> rows] :
               rows \in UNION {[1..n -> RowsOf(s)] : n \in 0..MaxRows}} : s \in Schemas}

\* f'{v}' of an int and of a float
IntText(n) == CASE n = 1 -> "1" [] n = 2 -> "2" [] n = Sentinel -> "-9999999"
FloatText(n) == CASE n = 1 -> "1.0" [] n = 2 -> "2.0" [] n = Sentinel -> "-9999999.0"

\* int(x) and float(x) of a str, as astype applies them
ParseInt(x) ==
    CASE x = "1" -> I(1) [] x = "2" -> I(2) [] x = "-9999999" -> I(Sentinel) [] OTHER -> Bad
ParseFloat(x) ==
    CASE x \in {"1", "1.0"} -> F(1) [] x \in {"2", "2.0"} -> F(2)
      [] x \in {"-9999999", "-9999999.0"} -> F(Sentinel) [] OTHER -> Bad

\* v in (None, -9999999): None, or a number equal to the sentinel
IsMissing(v) == v.kind = "none" \/ (v.kind \in {"int", "float"} /\ v.num = Sentinel)

numpy_value_to_tidy(v) ==
    IF IsMissing(v) \/ v.kind = "nan" THEN "NA"
    ELSE IF v.kind = "int" THEN IntText(v.num)
    ELSE IF v.kind = "float" THEN FloatText(v.num)
    ELSE v.txt

numpy_type_to_tidy(ty) ==
    IF ty = "int" THEN "int" ELSE IF ty = "float" THEN "float" ELSE "string"

parse_type(name) ==
    IF name = "int" THEN "int" ELSE IF name = "float" THEN "float" ELSE "object"

\* A line of a file is the sequence of its tab-separated fields.
IsComment(line) == Len(line) > 0 /\ line[1] \in {"#c"}
\* not line.strip(): nothing but whitespace between the tabs
IsBlank(line) == \A i \in 1..Len(line) : line[i] \in {"", " "}

KeptLine(line) == ~IsComment(line) /\ ~IsBlank(line)

\* _comment_stripper: drop comment and blank lines, then the first line left
comment_stripper(lines) ==
    IF SelectSeq(lines, KeptLine) = << >> THEN << >> ELSE Tail(SelectSeq(lines, KeptLine))

\* open_tsv: the rows csv.reader yields
open_tsv(file) == comment_stripper(file.lines)

HackNaKeeps(x, ty) == S(x)

hack_na_value(x, ty) ==
    IF x # "NA" THEN S(x)
    ELSE IF ty = "float" THEN NaN
    ELSE IF ty = "int" THEN I(Sentinel)
    ELSE None

\* cols[i] of a row with more fields than the dictionary has columns is read
\* only for a field NA: IndexError
HackNaRaises(row, cols) == \E i \in 1..Len(row) : row[i] = "NA" /\ i > Len(cols)

hack_na(row, cols) ==
    [i \in 1..Len(row) |->
        IF i > Len(cols) THEN S(row[i]) ELSE hack_na_value(row[i], cols[i].type)]

\* astype of one value to the dtype of its column
Cast(v, ty) ==
    IF ty = "int" THEN (IF v.kind = "str" THEN ParseInt(v.txt)
                        ELSE IF v.kind = "int" THEN v ELSE Bad)
    ELSE IF ty = "float" THEN (IF v.kind = "str" THEN ParseFloat(v.txt)
                              ELSE IF v.kind = "none" THEN NaN ELSE v)
    ELSE v

\* Files found on disk, written by the engine or by hand.
TypeNames == {"int", "float", "string", "time"}
FieldTexts == {"1", "2.0", "a", "NA"}

DictionaryOf(names) ==
    [exists |-> TRUE,
     lines |-> << << "column_name", "type", "description" >> >> \o
               [i \in 1..Len(names) |-> << ColNames[i], names[i], "Unknown" >>]]

DataOf(rows) ==
    [exists |-> TRUE, lines |-> << [i \in 1..Len(rows[1]) |-> ColNames[i]] >> \o rows]

\* a dictionary of one column and a data file of one row
GivenNarrow ==
    {[dict |-> DictionaryOf(<< ty >>), data |-> DataOf(<< << x >> >>)] :
        ty \in TypeNames, x \in FieldTexts}

\* rows of one, two and three fields
GivenRows == {<< "1" >>, << "1", "NA" >>, << "1", "2" >>, << "1", "2", "NA" >>, << "1", "2", "2" >>}

\* a dictionary of two columns and a data file of one or two rows, whose
\* field counts need not agree with it
GivenWide ==
    {[dict |-> DictionaryOf(<< "int", ty >>), data |-> DataOf(rows)] :
        ty \in {"int", "float", "string"},
        rows \in UNION {[1..n -> GivenRows] : n \in 1..2}}

\* a data file whose dictionary file does not exist
GivenNoDictionary == {[dict |-> NoFile, data |-> DataOf(<< << x >> >>)] : x \in FieldTexts}

GivenFiles == GivenNarrow \cup GivenWide \cup GivenNoDictionary

\* Either a table is written and read back, or files found on disk are read.
InitCodec ==
    /\ timed = FALSE
    /\ default_max_retries = DefaultMaxRetries
    /\ InitCommon
    /\ InitOneCall
    /\ rd_cols = << >>
    /\ rd_rows = << >>
    /\ df2 = NoTable
    /\ terr = "none"
    /\ InitNoLines
    /\ InitNoFiles
    /\ \/ /\ df \in Tables
          /\ tpc = "write_dict"
          /\ dict_file = NoFile
          /\ data_file = NoFile
       \/ /\ df = NoTable
          /\ tpc = "read_dict"
          /\ \E g \in GivenFiles : dict_file = g.dict /\ data_file = g.data

TidyRaise(e) == tpc' = "raised" /\ terr' = e

DictionaryLines ==
    << << "column_name", "type", "description" >> >> \o
    [i \in 1..Len(df.cols) |->
        << df.cols[i].name, numpy_type_to_tidy(df.cols[i].type), "Unknown" >>]

DictionaryWrittenAlways(n) == TRUE

\* every print of the first with-block returned
DictionaryWritten(n) == n = Len(DictionaryLines)

\* _TidyTSVWriter.write, first with-block: the file is created, the lines are
\* printed and the file is closed; a print that fails leaves the lines
\* before it and ends the call
WriteDictionary(n) ==
    /\ tpc = "write_dict"
    /\ dict_file' = [exists |-> TRUE, lines |-> SubSeq(DictionaryLines, 1, n)]
    /\ IF DictionaryWritten(n)
       THEN tpc' = "write_data" /\ UNCHANGED terr
       ELSE TidyRaise("io")
    /\ UNCHANGED << notTidyVars, df, data_file, rd_cols, rd_rows, df2 >>

\* _TidyTSVWriter.write, second with-block
WriteData ==
    /\ tpc = "write_data"
    /\ data_file' = [exists |-> TRUE,
                     lines |-> << [i \in 1..Len(df.cols) |-> df.cols[i].name] >> \o
                               [r \in 1..Len(df.rows) |->
                                   [i \in 1..Len(df.cols) |->
                                       numpy_value_to_tidy(df.rows[r][i])]]]
    /\ tpc' = "read_dict"
    /\ UNCHANGED << notTidyVars, df, dict_file, rd_cols, rd_rows, df2, terr >>

\* _TidyTSVParser.__read_dictionary
ReadDictionary ==
    /\ tpc = "read_dict"
    /\ IF ~dict_file.exists
       THEN TidyRaise("missing") /\ UNCHANGED rd_cols
       ELSE /\ rd_cols' = [i \in 1..Len(open_tsv(dict_file)) |->
                              [name |-> open_tsv(dict_file)[i][1],
                               type |-> parse_type(open_tsv(dict_file)[i][2])]]
            /\ tpc' = "read_rows"
            /\ UNCHANGED terr
    /\ UNCHANGED << notTidyVars, df, dict_file, data_file, rd_rows, df2 >>

\* rows = [__hack_na(row, cols) for row in open_tsv(tsv_path)]
ReadRows ==
    /\ tpc = "read_rows"
    /\ IF \E r \in 1..Len(open_tsv(data_file)) : HackNaRaises(open_tsv(data_file)[r], rd_cols)
       THEN TidyRaise("index") /\ UNCHANGED rd_rows
       ELSE /\ rd_rows' = [r \in 1..Len(open_tsv(data_file)) |->
                              hack_na(open_tsv(data_file)[r], rd_cols)]
            /\ tpc' = "astype"
            /\ UNCHANGED terr
    /\ UNCHANGED << notTidyVars, df, dict_file, data_file, rd_cols, df2 >>

RECURSIVE MaxLen(_)
MaxLen(rows) ==
    IF rows = << >> THEN 0
    ELSE IF Len(Head(rows)) > MaxLen(Tail(rows)) THEN Len(Head(rows)) ELSE MaxLen(Tail(rows))

\* pd.DataFrame(rows, columns=names) accepts rows whose longest has as many
\* fields as there are names ...
ShapeAccepted(rows, cols) == rows = << >> \/ MaxLen(rows) = Len(cols)

\* ... and fills the shorter rows with None
Padded(rows, cols) ==
    [r \in 1..Len(rows) |->
        [i \in 1..Len(cols) |-> IF i <= Len(rows[r]) THEN rows[r][i] ELSE None]]

CastRows ==
    [r \in 1..Len(rd_rows) |->
        [i \in 1..Len(rd_cols) |-> Cast(Padded(rd_rows, rd_cols)[r][i], rd_cols[i].type)]]

\* pd.DataFrame(rows, columns=...) and df.astype(...)
AsType ==
    /\ tpc = "astype"
    /\ IF ~ShapeAccepted(rd_rows, rd_cols)
       THEN TidyRaise("shape") /\ UNCHANGED df2
       ELSE IF \E r \in 1..Len(CastRows) : \E i \in 1..Len(CastRows[r]) : CastRows[r][i] = Bad
       THEN TidyRaise("cast") /\ UNCHANGED df2
       ELSE /\ df2' = [cols |-> rd_cols, rows |-> CastRows]
            /\ tpc' = "done"
            /\ UNCHANGED terr
    /\ UNCHANGED << notTidyVars, df, dict_file, data_file, rd_cols, rd_rows >>

NextCodec ==
    \/ \E n \in 0..(Len(df.cols) + 1) : WriteDictionary(n)
    \/ WriteData
    \/ ReadDictionary
    \/ ReadRows
    \/ AsType

SpecCodec == InitCodec /\ [][NextCodec]_vars

\* ---- _comment_stripper, line by line ----

\* Lines: a comment, an empty line, a line of a space and a tab, a header, a
\* line with a later field starting with #, a line starting with a space.
LineChoices == {<< "#c" >>, << "" >>, << " ", "" >>, << "h" >>, << "a", "#c" >>, << " #c" >>}

InitStripper ==
    /\ timed = FALSE
    /\ default_max_retries = DefaultMaxRetries
    /\ InitCommon
    /\ InitOneCall
    /\ df = NoTable
    /\ tpc = "idle"
    /\ InitTidy
    /\ InitNoFiles
    /\ s_in \in UNION {[1..n -> LineChoices] : n \in 0..MaxLines}
    /\ s_pos = 1
    /\ s_n = 0
    /\ s_out = << >>

IsHeaderNever(n) == FALSE

\* if n == 1: the first line is a comment
IsHeader(n) == n = 1

\* if line[:1] == '#': continue
StripComment ==
    /\ s_pos <= Len(s_in)
    /\ IsComment(s_in[s_pos])
    /\ s_pos' = s_pos + 1
    /\ UNCHANGED << notStripVars, s_in, s_n, s_out >>

\* if not line.strip(): continue
StripBlank ==
    /\ s_pos <= Len(s_in)
    /\ ~IsComment(s_in[s_pos])
    /\ IsBlank(s_in[s_pos])
    /\ s_pos' = s_pos + 1
    /\ UNCHANGED << notStripVars, s_in, s_n, s_out >>

\* n += 1; if n == 1: continue; yield line
StripCount ==
    /\ s_pos <= Len(s_in)
    /\ KeptLine(s_in[s_pos])
    /\ s_n' = s_n + 1
    /\ s_out' = IF IsHeader(s_n + 1) THEN s_out ELSE Append(s_out, s_in[s_pos])
    /\ s_pos' = s_pos + 1
    /\ UNCHANGED << notStripVars, s_in >>

NextStripper ==
    \/ StripComment
    \/ StripBlank
    \/ StripCount

SpecStripper == InitStripper /\ [][NextStripper]_vars

\* ---- files: copy_file, open_file, file_exists, maybe_cache_file, create_file ----

\* The local file and the remote object may exist beforehand.
InitFiles ==
    /\ timed = FALSE
    /\ default_max_retries = DefaultMaxRetries
    /\ InitCommon
    /\ InitOneCall
    /\ df = NoTable
    /\ tpc = "idle"
    /\ InitTidy
    /\ InitNoLines
    /\ \E a \in {Absent, "x"}, b \in {Absent, "y"} :
          fs = [p \in Paths |-> IF p = LocalFile THEN a
                                ELSE IF p = "s3://b/k" THEN b ELSE Absent]
    /\ w_path = ""
    /\ fres = NoRes
    /\ created = {}
    /\ fetched = {}
    /\ InitPool
    /\ InitNoPaths

\* grail-file cp exits 0: the source exists and the transfer works
CpOk(f, from, ok) == ok /\ f[from] # Absent

\* the files after grail-file cp
AfterCp(f, from, to, ok) == IF CpOk(f, from, ok) THEN [f EXCEPT ![to] = f[from]] ELSE f

\* _removeall: nothing for a remote path, os.remove for a local one
removeall(f, to) == IF IsRemote(to) THEN f ELSE [f EXCEPT ![to] = Absent]

\* the files after copy_file: check_call, then the finally clause
copy_file(f, from, to, ok) == removeall(AfterCp(f, from, to, ok), to)

\* GQL.copy_file as called by a user
CopyFile(from, to, ok) ==
    /\ from # to
    /\ fs' = copy_file(fs, from, to, ok)
    /\ fres' = [NoRes EXCEPT !.op = "copy_file", !.path = from, !.to = to, !.src = fs[from],
                             !.raised = ~CpOk(fs, from, ok)]
    /\ UNCHANGED << notFileVars, w_path, created, fetched >>

\* maybe_cache_file transfers: the path is remote and has no local copy
NeedsFetch(p) == IsRemote(p) /\ fs[CachePath(p)] = Absent

\* the path maybe_cache_file returns
LocalOf(p) == IF IsRemote(p) THEN CachePath(p) ELSE p

\* the files after maybe_cache_file
Cached(p, ok) == IF NeedsFetch(p) THEN copy_file(fs, p, CachePath(p), ok) ELSE fs

\* copy_file raised CalledProcessError in maybe_cache_file
FetchRaises(p, ok) == NeedsFetch(p) /\ ~CpOk(fs, p, ok)

\* open(local path) raised FileNotFoundError
OpenRaises(p, ok) == ~FetchRaises(p, ok) /\ Cached(p, ok)[LocalOf(p)] = Absent

Access(op, p, ok) ==
    [NoRes EXCEPT !.op = op, !.path = p,
                  !.transfer = NeedsFetch(p) /\ CpOk(fs, p, ok),
                  !.cached = p \in fetched]

NoteFetch(p, ok) ==
    fetched' = IF NeedsFetch(p) /\ CpOk(fs, p, ok) THEN fetched \cup {p} ELSE fetched

\* GQL.maybe_cache_file
MaybeCacheFile(p, ok) ==
    /\ fs' = Cached(p, ok)
    /\ fres' = [Access("maybe_cache_file", p, ok) EXCEPT !.raised = FetchRaises(p, ok)]
    /\ NoteFetch(p, ok)
    /\ UNCHANGED << notFileVars, w_path, created >>

\* GQL.open_file
OpenFile(p, ok) ==
    /\ fs' = Cached(p, ok)
    /\ fres' = [Access("open_file", p, ok) EXCEPT
                   !.raised = FetchRaises(p, ok) \/ OpenRaises(p, ok),
                   !.value = ~(FetchRaises(p, ok) \/ OpenRaises(p, ok))]
    /\ NoteFetch(p, ok)
    /\ UNCHANGED << notFileVars, w_path, created >>

\* GQL.file_exists: both exceptions are caught
FileExists(p, ok) ==
    /\ fs' = Cached(p, ok)
    /\ fres' = [Access("file_exists", p, ok) EXCEPT
                   !.value = ~(FetchRaises(p, ok) \/ OpenRaises(p, ok))]
    /\ NoteFetch(p, ok)
    /\ UNCHANGED << notFileVars, w_path, created >>

\* the file a writer on path p writes to
WriteTarget(p) == IF IsRemote(p) THEN TmpPath(p) ELSE p

\* GQL.create_file and __enter__: the local file is opened with 'w'
CreateFile(p) ==
    /\ w_path = ""
    /\ w_path' = p
    /\ fs' = [fs EXCEPT ![WriteTarget(p)] = ""]
    /\ fres' = [NoRes EXCEPT !.op = "create_file", !.path = p]
    /\ UNCHANGED << notFileVars, created, fetched >>

\* write / print in the body of the with-block
WriteFile(d) ==
    /\ w_path # ""
    /\ fs[WriteTarget(w_path)] = ""
    /\ fs' = [fs EXCEPT ![WriteTarget(w_path)] = d]
    /\ UNCHANGED << notFileVars, w_path, fres, created, fetched >>

UploadsAlways(exc) == TRUE

\* __exit__: if traceback is not None: close the local file and return
Uploads(exc) == ~exc

\* the with-block is left, normally or by an exception of its body
ExitFile(exc, ok) ==
    /\ w_path # ""
    /\ w_path' = ""
    /\ IF IsRemote(w_path) /\ Uploads(exc)
       THEN /\ fs' = copy_file(fs, TmpPath(w_path), w_path, ok)
            /\ fres' = [NoRes EXCEPT !.op = "close", !.path = w_path,
                                     !.src = fs[TmpPath(w_path)],
                                     !.old = fs[w_path],
                                     !.raised = exc \/ ~CpOk(fs, TmpPath(w_path), ok),
                                     !.exc = exc,
                                     !.uploads = IF CpOk(fs, TmpPath(w_path), ok) THEN 1 ELSE 0]
            /\ created' = IF CpOk(fs, TmpPath(w_path), ok) /\ ~exc
                          THEN created \cup {w_path} ELSE created
       ELSE /\ fs' = fs
            /\ fres' = [NoRes EXCEPT !.op = "close", !.path = w_path,
                                     !.src = fs[WriteTarget(w_path)],
                                     !.old = fs[w_path],
                                     !.raised = exc, !.exc = exc]
            /\ UNCHANGED created
    /\ UNCHANGED << notFileVars, fetched >>

NextFiles ==
    \/ \E from \in UserPaths, to \in UserPaths, ok \in BOOLEAN : CopyFile(from, to, ok)
    \/ \E p \in UserPaths, ok \in BOOLEAN : MaybeCacheFile(p, ok)
    \/ \E p \in UserPaths, ok \in BOOLEAN : OpenFile(p, ok)
    \/ \E p \in UserPaths, ok \in BOOLEAN : FileExists(p, ok)
    \/ \E p \in UserPaths : CreateFile(p)
    \/ \E d \in Contents \ {""} : WriteFile(d)
    \/ \E exc \in BOOLEAN, ok \in BOOLEAN : ExitFile(exc, ok)

SpecFiles == InitFiles /\ [][NextFiles]_vars

\* ---- run.py: the quintile loop and the pool's workers ----

InitQuintiles ==
    /\ timed = FALSE
    /\ default_max_retries = DefaultMaxRetries
    /\ InitCommon
    /\ InitOneCall
    /\ df = NoTable
    /\ tpc = "idle"
    /\ InitTidy
    /\ InitNoLines
    /\ InitNoFiles

\* for quintile in range(0, 5): the next value is bound, or the loop ends
LoopNext ==
    /\ m_pc = "for"
    /\ IF quintile + 1 < NQuintiles
       THEN quintile' = quintile + 1 /\ m_pc' = "params"
       ELSE m_pc' = "result" /\ UNCHANGED quintile
    /\ UNCHANGED << notPoolVars, q_params, task >>

\* params = dict(gql_params); params['quintile'] = f'{quintile}'
BindParams ==
    /\ m_pc = "params"
    /\ q_params' = quintile
    /\ m_pc' = "submit"
    /\ UNCHANGED << notPoolVars, quintile, task >>

\* callback = lambda: ...; results.append(pool.submit(callback))
Submit ==
    /\ m_pc = "submit"
    /\ task' = [task EXCEPT ![quintile + 1].state = "queued"]
    /\ m_pc' = "for"
    /\ UNCHANGED << notPoolVars, quintile, q_params >>

\* The value of a variable the callback's body reads: the one the variable
\* has when the body runs.
Captured(now, at_submit) == now

\* a worker runs the callback: label=f'{quintile}' is evaluated
TaskLabel(k) ==
    /\ task[k].state = "queued"
    /\ task' = [task EXCEPT ![k].state = "label", ![k].label = Captured(quintile, k - 1)]
    /\ UNCHANGED << notPoolVars, m_pc, quintile, q_params >>

\* gql_params=params is evaluated and gql_sess.run is called
TaskParams(k) ==
    /\ task[k].state = "label"
    /\ task' = [task EXCEPT ![k].state = "run", ![k].param = Captured(q_params, k - 1)]
    /\ UNCHANGED << notPoolVars, m_pc, quintile, q_params >>

\* gql_status = [r.result() for r in results]
Results ==
    /\ m_pc = "result"
    /\ \A k \in Tasks : task[k].state = "run"
    /\ m_pc' = "finished"
    /\ UNCHANGED << notPoolVars, quintile, q_params, task >>

NextQuintiles ==
    \/ LoopNext
    \/ BindParams
    \/ Submit
    \/ \E k \in Tasks : TaskLabel(k)
    \/ \E k \in Tasks : TaskParams(k)
    \/ Results

SpecQuintiles == InitQuintiles /\ [][NextQuintiles]_vars

\* ---- the names of the cache files and of the writers' staging files ----

\* A path is a sequence of pieces of text; no piece is a prefix of another,
\* so two sequences spell the same string only if they are equal.
PathChars == {"/", "_", "k", "tmp"}

S3Prefix == << "s3:", "/", "/" >>

RECURSIVE Tails(_)
Tails(n) ==
    IF n = 0 THEN {<< >>}
    ELSE LET shorter == Tails(n - 1)
         IN shorter \cup {Append(t, c) : t \in {u \in shorter : Len(u) = n - 1}, c \in PathChars}

RemotePaths == {S3Prefix \o t : t \in Tails(MaxPathLen) \ {<< >>}}

\* path.startswith('s3://')
StartsWithS3(path) == Len(path) >= 3 /\ SubSeq(path, 1, 3) = S3Prefix

\* path.replace('/', '_')
Replace(path) == [i \in 1..Len(path) |-> IF path[i] = "/" THEN "_" ELSE path[i]]

\* os.path.join(CACHE_DIR, name), for a name that does not start with '/'
JoinCacheDir(name) == << "CACHE_DIR", "/" >> \o name

\* maybe_cache_file: local_path = os.path.join(CACHE_DIR, path.replace('/', '_'))
local_path(path) == JoinCacheDir(Replace(path))

\* _S3FileWriter.__init__:
\* self.__local_path = os.path.join(CACHE_DIR, path.replace('/', '_') + 'tmp')
writer_local_path(path) == JoinCacheDir(Replace(path) \o << "tmp" >>)

InitPaths ==
    /\ timed = FALSE
    /\ default_max_retries = DefaultMaxRetries
    /\ InitCommon
    /\ InitOneCall
    /\ df = NoTable
    /\ tpc = "idle"
    /\ InitTidy
    /\ InitNoLines
    /\ fs = [p \in Paths |-> Absent]
    /\ w_path = ""
    /\ fres = NoRes
    /\ created = {}
    /\ fetched = {}
    /\ InitPool
    /\ r_path \in RemotePaths \X RemotePaths
    /\ r_cache = << NoName, NoName >>
    /\ r_stage = NoName

\* maybe_cache_file(r_path[i]) names the local copy
CacheName(i) ==
    /\ r_cache[i] = NoName
    /\ r_cache' = [r_cache EXCEPT ![i] =
                     IF StartsWithS3(r_path[i]) THEN local_path(r_path[i]) ELSE r_path[i]]
    /\ UNCHANGED << notPathVars, r_path, r_stage >>

\* create_file(r_path[1]) makes an _S3FileWriter, which names its staging file
StagingName ==
    /\ r_stage = NoName
    /\ StartsWithS3(r_path[1])
    /\ r_stage' = writer_local_path(r_path[1])
    /\ UNCHANGED << notPathVars, r_path, r_cache >>

NextPaths ==
    \/ \E i \in 1..2 : CacheName(i)
    \/ StagingName

SpecPaths == InitPaths /\ [][NextPaths]_vars

\* ---- properties ----

RunReturned == returned # -1

\* The retry loop of _Instance.run has been left without an exception.
LoopOver ==
    \/ pc \in {"join_set", "join_bm", "join_main", "returned", "decode", "done"}
    \/ pc = "raised" /\ err = "status"

\* Every engine process so far exited nonzero.
AllFailed == first_zero = 0

BothSet == call.expr # "" /\ call.script_path # ""
NoneSet == call.expr = "" /\ call.script_path = ""

\* C1: with max_retries = n >= 0 and an engine that exits nonzero on every
\* attempt, run invokes the engine exactly n + 1 times and then returns the
\* exit status of the last attempt; exhausting the retries raises nothing
\* (an exception of run leaves attempts unused).
C1_RetryExhaustion ==
    /\ (RunReturned /\ max_retries >= 0 /\ AllFailed) =>
          /\ invocations = max_retries + 1
          /\ returned = last_exit
          /\ returned # 0
    /\ (pc = "raised" /\ err \in {"io", "params", "exec"} /\ max_retries >= 0) =>
          invocations <= max_retries

C1_Witness ==
    /\ RunReturned
    /\ AllFailed
    /\ max_retries = MaxRetries
    /\ invocations = MaxRetries + 1
    /\ returned = last_exit
    /\ returned # 0

\* C2: once an attempt exits with status zero no further engine invocation
\* happens and run returns 0; when the loop is over the number of
\* invocations is min(index of the first zero exit, max_retries + 1).
C2_StopOnSuccess ==
    /\ first_zero > 0 => invocations = first_zero
    /\ invocations <= (IF max_retries >= 0 THEN max_retries + 1 ELSE 0)
    /\ (LoopOver /\ first_zero = 0) =>
          invocations = (IF max_retries >= 0 THEN max_retries + 1 ELSE 0)
    /\ (RunReturned /\ first_zero > 0) => returned = 0

C2_Witness ==
    /\ RunReturned
    /\ returned = 0
    /\ max_retries = 2
    /\ first_zero = 2
    /\ invocations = 2

\* C3: GQL.run and GQL.eval called with neither or both of expr and
\* script_path fail with a configuration error; no engine process is
\* launched, no sampler thread is started and nothing is retried.
C3_GQLExactlyOne ==
    (call.api \in {"run", "eval"} /\ (BothSet \/ NoneSet) /\ pc \notin {"idle", "entry"}) =>
        /\ pc = "raised"
        /\ err = "config"
        /\ invocations = 0
        /\ n_start = 0
        /\ retries = 0

C3_Witness ==
    /\ call.api = "eval"
    /\ BothSet
    /\ pc = "raised"
    /\ err = "config"

\* C4: a job built directly as an _Instance with both or neither of
\* script_path and expr set fails with a configuration error before any
\* process is started.
C4_InstanceExactlyOne ==
    (call.api = "instance" /\ (BothSet \/ NoneSet) /\ pc \notin {"idle", "construct"}) =>
        /\ pc = "raised"
        /\ err \in {"config", "label"}
        /\ invocations = 0

\* C5 (as stated): a job whose label is empty is rejected with a
\* configuration error before any engine process starts, through GQL.run,
\* GQL.eval and _Instance alike.
C5_EmptyLabelRejected ==
    (call.label = "" /\ pc \notin {"idle", "entry", "construct"}) =>
        /\ pc = "raised"
        /\ err \in {"config", "label"}
        /\ invocations = 0

\* C5 (amended): an empty label is rejected, before any sampler or engine
\* process starts, only when the _Instance is constructed directly; GQL.run
\* and GQL.eval replace an empty label by 'anon_run' / 'anon_expr' and the
\* job is constructed with that label.
C5_EmptyLabel ==
    /\ (call.api = "instance" /\ call.label = "" /\ pc \notin {"idle", "construct"}) =>
          /\ pc = "raised"
          /\ err \in {"config", "label"}
          /\ invocations = 0
          /\ n_start = 0
    /\ (call.api \in {"run", "eval"} /\ call.label = ""
          /\ pc \notin {"idle", "entry", "construct"} /\ err \notin {"config", "label"}) =>
          label = (IF call.api = "eval" THEN "anon_expr" ELSE "anon_run")

C5_Witness ==
    /\ call.api = "instance"
    /\ call.label = ""
    /\ ~NoneSet
    /\ pc = "raised"
    /\ err = "label"
    /\ invocations = 0

C7_QuiescentAfterReturn ==
    RunReturned => \A s \in Samplers : thr[s] = "exit"

C7_Witness ==
    /\ RunReturned
    /\ invocations > 0
    /\ \A s \in Samplers : thr[s] = "exit"
    /\ \E s \in Samplers : failed[s]

\* C8: once done is set no sampler begins a snapshot cycle: a sampler whose
\* wait ends with done set terminates without sampling, so the only cycle of
\* a sampler that runs after the signal is one that had already begun.
C8_NoCycleAfterDone ==
    [][\A s \in Samplers :
          /\ (done /\ thr[s] # "cpu") => thr'[s] # "cpu"
          /\ (done /\ thr[s] \in {"wait", "woken"} /\ thr'[s] # thr[s]) => thr'[s] = "exit"
      ]_vars

C8_Witness ==
    /\ done
    /\ \E s \in Samplers : thr[s] \in {"cpu", "heap"}

\* C9: whatever point of its loop a sampler is at when done is set, it
\* terminates within one interval (30 time units) of the signal.
C9_StopsWithinInterval ==
    \A s \in Samplers :
        (done /\ thr[s] \notin {"unstarted", "exit"}) => since_done <= Interval

\* C10: a failed snapshot fetch never terminates the sampler thread (a
\* sampler exits only once done is set) and never changes the exit status
\* that run returns, and the final join still completes.
C10_FetchFailureIgnored ==
    /\ \A s \in Samplers : thr[s] = "exit" => done
    /\ RunReturned => returned = (IF invocations = 0 THEN 0 ELSE last_exit)

C10_Witness ==
    /\ RunReturned
    /\ invocations > 0
    /\ returned = last_exit
    /\ \A s \in Samplers : failed[s] /\ thr[s] = "exit"

ViaGQL == call.api \in {"run", "eval"}

\* C11: GQL.eval reads the output file and returns a table only when the
\* status returned by the job is zero; when it is nonzero eval raises,
\* returns no table and never reads the output file.
C11_EvalDecodesOnSuccess ==
    /\ (call.api = "eval" /\ pc \in {"decode", "done"}) => (RunReturned /\ returned = 0)
    /\ (call.api = "eval" /\ RunReturned /\ returned # 0 /\ pc # "returned") =>
          (pc = "raised" /\ err = "status")

C11_Witness ==
    /\ call.api = "eval"
    /\ RunReturned
    /\ returned # 0
    /\ returned = last_exit
    /\ pc = "raised"
    /\ err = "status"

\* The max_retries GQL.run / GQL.eval are to use: the session default for a
\* negative argument, the argument otherwise.
ExpectedRetries ==
    IF call.max_retries < 0 THEN default_max_retries ELSE call.max_retries

C13_NegativeMeansNoRetry ==
    (ViaGQL /\ call.max_retries < 0 /\ RunReturned /\ AllFailed) => invocations = 1

\* run.py's call gql_sess.run(label=..., script_path=args.script,
\* gql_params=...) on a session built with default_max_retries=args.max_retries.
RunPyJob ==
    /\ call.api = "run"
    /\ call.expr = ""
    /\ call.script_path = "s"
    /\ call.max_retries = 0

\* C14: with run.py --max_retries=n an always-failing job invokes the
\* engine exactly n + 1 times.
C14_RunPyRetries ==
    (RunPyJob /\ RunReturned /\ AllFailed) => invocations = default_max_retries + 1

\* A params mapping as the engine is to receive it: '--<key>=<value>' per entry.
AsGiven(params) ==
    [i \in 1..Len(params) |-> [name |-> params[i].key, value |-> params[i].val]]

\* C15: the engine receives the gql_params argument of GQL.eval / GQL.run
\* when it is non-empty, and the session's default_params when it is empty.
C15_ExplicitOverridesDefault ==
    (ViaGQL /\ invocations > 0) =>
        cmd_params = AsGiven(IF call.gql_params # << >> THEN call.gql_params
                             ELSE default_params)

\* C16: for every non-empty params mapping, run renders one '--<key>=<value>'
\* per entry and goes on to invoke the engine.
C16_ParamsRendered ==
    (gql_params # << >> /\ (pc = "loop" \/ (pc = "raised" /\ err = "params"))) =>
        (pc = "loop" /\ cmd_params = AsGiven(gql_params))

\* The call has taken its counter value.
HasSeq(j) == job[j].seq # -1

\* The job is between its call and its return.
Running(j) == job[j].pc \notin {"idle", "finished"}

\* C17: under any interleaving of concurrent GQL.eval calls on one session no
\* two calls get the same temporary output path: the counter values in the
\* paths are pairwise distinct and increase in the order the calls took them.
C17_DistinctTempPaths ==
    /\ \A j, k \in Jobs :
          (j # k /\ HasSeq(j) /\ HasSeq(k)) =>
              /\ job[j].seq # job[k].seq
              /\ job[j].temp_path # job[k].temp_path
    /\ \A j \in Jobs : HasSeq(j) => job[j].temp_path[3] = job[j].seq
    /\ \A i, k \in 1..Len(order) : i < k => job[order[i]].seq < job[order[k]].seq

\* Two eval calls under the same label, both in flight, hold different paths.
C17_Witness ==
    \E j, k \in Jobs :
        /\ j # k /\ HasSeq(j) /\ HasSeq(k)
        /\ Running(j) /\ Running(k)
        /\ job[j].label = job[k].label
        /\ job[j].temp_path # job[k].temp_path

\* C18: no two jobs running concurrently in one session have the same path
\* open for writing (engine log, pprof log, snapshot files).
C18_NoSharedOpenPath ==
    \A j, k \in Jobs : j # k => OpenForWrite(j) \cap OpenForWrite(k) = {}

\* C19: the ports of concurrently running jobs of one session never collide:
\* no port in use by one job equals a port in use by another.
C19_NoPortCollision ==
    \A j, k \in Jobs : j # k => PortsInUse(j) \cap PortsInUse(k) = {}

\* C20: round trip: for every table with int, float and string columns,
\* missing values and values equal to the sentinel or to the text NA
\* included, reading back what was written reproduces the table's column
\* names, column types and values.
C20_RoundTrip ==
    (df # NoTable /\ tpc \in {"done", "raised"} /\ terr # "io") => (tpc = "done" /\ df2 = df)

\* The type name the dictionary file declares for column i.
Declared(i) == open_tsv(dict_file)[i][2]

\* v is what the field x of a column declared ty decodes to.
Decoded(x, ty, v) ==
    IF x = "NA"
    THEN \/ ty = "int" /\ v = I(Sentinel)
         \/ ty = "float" /\ v = NaN
         \/ ty \notin {"int", "float"} /\ v = None
    ELSE \/ ty = "int" /\ v.kind = "int" /\ IntText(v.num) = x
         \/ ty = "float" /\ v.kind = "float" /\ x \in {IntText(v.num), FloatText(v.num)}
         \/ ty \notin {"int", "float"} /\ v = S(x)

\* C21: on decode the field NA becomes None in a string column, NaN in a
\* float column and the sentinel in an int column; any other field is the
\* value its text denotes in the declared type; a declared type other than
\* int or float makes the column a string column.
C21_DecodeByType ==
    tpc = "done" =>
        /\ Len(df2.cols) = Len(open_tsv(dict_file))
        /\ \A i \in 1..Len(df2.cols) :
              df2.cols[i].type = (IF Declared(i) \in {"int", "float"} THEN Declared(i) ELSE "object")
        /\ Len(df2.rows) = Len(open_tsv(data_file))
        /\ \A r \in 1..Len(df2.rows) : \A i \in 1..Len(open_tsv(data_file)[r]) :
              Decoded(open_tsv(data_file)[r][i], Declared(i), df2.rows[r][i])

\* Files found on disk were decoded: an int field and NA in a float column.
C21_Witness ==
    /\ tpc = "done" /\ df = NoTable
    /\ Len(open_tsv(dict_file)) = 2 /\ Len(open_tsv(data_file)) = 1
    /\ Declared(2) = "float"
    /\ open_tsv(data_file)[1] = << "1", "NA" >>
    /\ df2.rows[1] = << I(1), NaN >>

\* The loop of _comment_stripper has consumed its input.
Stripped == s_pos > Len(s_in)

\* C22: _comment_stripper yields, in their order, exactly the lines that are
\* neither blank nor comments, minus the first of them; blank and comment
\* lines before the header are not taken for the header.
C22_StripperYields ==
    Stripped =>
        /\ s_out = (IF SelectSeq(s_in, KeptLine) = << >> THEN << >>
                    ELSE Tail(SelectSeq(s_in, KeptLine)))
        /\ s_out = comment_stripper(s_in)

\* A comment precedes the header and a line follows it.
C22_Witness ==
    /\ Stripped
    /\ s_in = << << "#c" >>, << "h" >>, << "a", "#c" >> >>
    /\ s_out = << << "a", "#c" >> >>

\* A data row has more or fewer fields than the dictionary has columns.
FieldCountMismatch ==
    /\ dict_file.exists
    /\ \E r \in 1..Len(open_tsv(data_file)) :
          Len(open_tsv(data_file)[r]) # Len(open_tsv(dict_file))

\* C23: tidytsv_to_dataframe ends with an exception, and returns no table,
\* whenever a data row has a field count different from the number of
\* dictionary columns or the dictionary file is missing.
C23_MismatchIsFatal ==
    (df = NoTable /\ tpc \in {"done", "raised"} /\ (FieldCountMismatch \/ ~dict_file.exists)) =>
        (tpc = "raised" /\ df2 = NoTable)

\* C24: in dataframe_to_tidytsv the dictionary file is written completely and
\* closed before the data file is created; if writing the dictionary fails
\* the data file is never created and the failure reaches the caller.
C24_DictionaryFirst ==
    df # NoTable =>
        /\ data_file.exists => (dict_file.exists /\ dict_file.lines = DictionaryLines)
        /\ (dict_file.exists /\ dict_file.lines # DictionaryLines) =>
              (tpc = "raised" /\ terr = "io" /\ ~data_file.exists)

\* The dictionary was cut short after its header line; no data file exists.
C24_Witness ==
    /\ df # NoTable /\ tpc = "raised" /\ terr = "io"
    /\ dict_file.exists /\ Len(dict_file.lines) = 1
    /\ ~data_file.exists

\* C25: after copy_file(from_path, to_path) returns without error to_path
\* exists and holds the contents of from_path, for local as well as remote
\* destinations.
C25_CopyDelivers ==
    (fres.op = "copy_file" /\ ~fres.raised) => fs[fres.to] = fres.src

\* C26: file_exists returns True for a remote object created and closed
\* through create_file and False for a path that was never created; it does
\* not raise.
C26_FileExists ==
    fres.op = "file_exists" =>
        /\ ~fres.raised
        /\ (IsRemote(fres.path) /\ fres.path \in created) => fres.value
        /\ fs[fres.path] = Absent => ~fres.value

\* C27: a remote path fetched once has a local cache copy, and a later access
\* to it reuses the copy and performs no further transfer.
C27_CacheReused ==
    /\ \A p \in fetched : fs[CachePath(p)] # Absent
    /\ (fres.op \in {"maybe_cache_file", "open_file", "file_exists"} /\ fres.cached) =>
          ~fres.transfer

\* The with-block of a remote create_file has been left.
RemoteClosed == fres.op = "close" /\ IsRemote(fres.path)

\* C28: a remote file opened with create_file is uploaded exactly when it is
\* closed normally: leaving the with-block without an exception uploads the
\* written contents once; leaving it because the body raised uploads nothing
\* and the exception propagates.
C28_UploadOnClose ==
    RemoteClosed =>
        /\ (~fres.exc /\ ~fres.raised) => (fres.uploads = 1 /\ fs[fres.path] = fres.src)
        /\ fres.exc => (fres.uploads = 0 /\ fres.raised /\ fs[fres.path] = fres.old)

\* A remote object that held y was replaced by the x written in the block.
C28_Witness ==
    /\ RemoteClosed /\ ~fres.exc /\ ~fres.raised
    /\ fres.old = "y" /\ fres.src = "x" /\ fs[fres.path] = "x"

\* C29: in run.py's quintile mode, under every interleaving of the submitting
\* loop with the workers, the five jobs run with the five quintile values
\* 0..4 and five distinct labels; no job sees a loop variable changed by a
\* later iteration.
C29_DistinctQuintiles ==
    /\ \A k \in Tasks :
          task[k].state = "run" => (task[k].label = k - 1 /\ task[k].param = k - 1)
    /\ \A j, k \in Tasks :
          (j # k /\ task[j].state = "run" /\ task[k].state = "run") =>
              (task[j].label # task[k].label /\ task[j].param # task[k].param)

\* _Instance.run has ended, by a return or by an exception raised after the
\* samplers were started.
RunEnded == RunReturned \/ (pc = "raised" /\ err \in {"io", "params", "exec"})

\* C30: on every exit path of _Instance.run, an exception raised after the
\* samplers were started included, done is set and both sampler threads
\* terminate: no sampler thread outlives a run that has ended.
C30_DoneOnEveryExit ==
    RunEnded => (done /\ \A s \in Samplers : thr[s] = "exit")

\* C31: _Instance.run returns status 0 only if the engine process was invoked
\* at least once and its last invocation exited with status 0, for every
\* max_retries that reaches it (a negative one included).
C31_ZeroOnlyAfterSuccess ==
    (RunReturned /\ returned = 0) => (invocations >= 1 /\ last_exit = 0)

\* C32: a sampler never begins a timed wait on done_cv when done is already
\* set: a sampler that is starting up, fetching or sleeping when __join_pprof
\* sets done and notifies exits without entering a fresh 30-unit wait.
C32_NoWaitAfterDone ==
    [][\A s \in Samplers : (done /\ thr[s] # "wait") => thr'[s] # "wait"]_vars

\* From the retry loop on, a fairly scheduled run always comes to an end:
\* it returns a status, or subprocess.call raised.
LoopPhaseEnds == (pc = "loop") ~> (RunReturned \/ err = "exec")

\* C33: if every engine invocation and every snapshot fetch terminates, then
\* under fair scheduling _Instance.run eventually returns, with the retry
\* loop over, both samplers exited and both joins complete.
C33_RunReturns ==
    (pc = "start_bm") ~>
        ((RunReturned /\ \A s \in Samplers : thr[s] = "exit") \/ err = "exec")

\* C34: the mapping from a remote path to its local cache file is injective
\* and disjoint from the staging files of remote writers: two different
\* remote paths never share a cache file, and the staging file of a writer
\* for a path is never the cache file of another remote path.
C34_CacheNamesDistinct ==
    r_path[1] # r_path[2] =>
        /\ (r_cache[1] # NoName /\ r_cache[2] # NoName) => r_cache[1] # r_cache[2]
        /\ (r_stage # NoName /\ r_cache[2] # NoName) => r_stage # r_cache[2]

====
